---- MODULE Spec2Model ----
(***************************************************************************)
(* Model of the camera ingestion core of src/core/camera_manager.py:       *)
(* CameraManager (the supervisor), its registries, and the capture worker  *)
(* threads (_capture_frames).  The supervisor's public operations are      *)
(* called from one thread (the Qt UI thread of src/ui/main_window.py);     *)
(* every capture worker is a thread of its own.                            *)
(*                                                                         *)
(* thread.join(timeout) gives up only on a worker that cannot finish: one  *)
(* inside a device call, or one waiting for thread_lock (see Blocked); the *)
(* sleeps of the worker are shorter than the timeout.  Not modelled: the   *)
(* exception path of start_camera (lines 213-216), exceptions raised by    *)
(* cap.release(), cap.read() and cv2.rotate, and start_all_cameras and     *)
(* stop_all_cameras.  Only camera 0 is ever enabled.                       *)
(*                                                                         *)
(* The second part models FaceDetector of src/core/face_detection.py: the  *)
(* gallery known_faces, its reloads (load_known_faces,                     *)
(* load_known_faces_from_db), recognize_faces and the threshold set by     *)
(* MainWindow.update_threshold.  Similarities are exact rationals in       *)
(* hundredths (floating-point rounding is left out); the embeddings        *)
(* considered have integer norms.  The application calls FaceDetector from *)
(* the UI thread only (SpecFaces, every call one step); FaceDetector holds *)
(* no lock, and SpecFacesConcurrent runs a reload on one thread beside     *)
(* recognize_faces on another.  SpecRegister has detect_faces and          *)
(* add_known_face beside the reloads.                                      *)
(***************************************************************************)
EXTENDS Integers, Sequences, FiniteSets, TLC

\* ---------------------------------------------------------------- bounds
MaxThreads == 1      \* thread objects in existence at one time (one more under SpecWide)

\* ------------------------------------------------------ program constants
max_retries == 3
max_consecutive_failures == 10
QueueMaxSize == 2

CamIds == {0, 1}
ThreadIds == 1..(MaxThreads + 1)
Sources == {"local", "net"}

\* ------------------------------------------------- configuration documents
\* A document is the list under 'cameras' of the YAML file; a record with
\* ok = FALSE lacks a required key ('id', 'source' or 'resolution').
Rec(i, e, s, k) == [id |-> i, enabled |-> e, source |-> s, ok |-> k]

ConfigDocs ==
    { << Rec(0, TRUE, "local", TRUE), Rec(1, FALSE, "local", TRUE) >>,
      << Rec(0, TRUE, "net", TRUE), Rec(1, FALSE, "local", TRUE) >>,
      << Rec(0, FALSE, "local", TRUE) >>,
      << Rec(1, FALSE, "local", TRUE), Rec(0, TRUE, "local", FALSE) >> }

ValidDocs == { d \in ConfigDocs : \A k \in 1..Len(d) : d[k].ok }

\* The number of leading well-formed records of a document.
GoodPrefix(doc) ==
    IF \A k \in 1..Len(doc) : doc[k].ok THEN Len(doc)
    ELSE (CHOOSE k \in 1..Len(doc) : ~doc[k].ok /\ \A j \in 1..(k-1) : doc[j].ok) - 1

\* self.cameras after the loop of load_config has stored the first n records.
CamerasOf(doc, n) ==
    [ i \in { doc[k].id : k \in 1..n } |->
        LET k == CHOOSE k \in 1..n :
                    doc[k].id = i /\ \A j \in (k+1)..n : doc[j].id # i
        IN  [enabled |-> doc[k].enabled, source |-> doc[k].source] ]

\* ------------------------------------------------------------------ state
VARIABLES
    cameras,            \* self.cameras: id -> CameraConfig
    capture_threads,    \* self.capture_threads: id -> thread
    capture_objects,    \* self.capture_objects: id -> the VideoCapture of a thread
    stop_events,        \* self.stop_events: id -> is the Event set
    frame_queues,       \* self.frame_queues: id -> contents of the Queue(maxsize=2)
    thread_lock,        \* self.thread_lock: "free" or "caller"
    pc,                 \* per thread: position in _capture_frames ("off": not running)
    cam,                \* per thread: its cam_id argument
    src,                \* per thread: cam_config.source read at line 228
    cap,                \* per thread: its VideoCapture ("none", "failed", "open",
                        \* "released", "released_twice": release() called twice)
    retry_count,        \* per thread: retry_count
    consecutive_failures, \* per thread: consecutive_failures
    failed_reads,       \* per thread (history): failed cap.read() calls since the
                        \* last successful one
    frame,              \* per thread: the frame read in this iteration (0: none);
                        \* a frame is named by its rank in capture order among
                        \* the frames still held by a queue or a thread
    why,                \* per thread, in the finally block: the path that led there
    threadCap,          \* thread objects that may exist at one time (fixed by Init)
    spc,                \* the caller: position in the operation in progress
    sop,                \* the caller: the operation in progress ("none", "start", "stop")
    sarg,               \* the caller: its cam_id argument
    ppc,                \* a second calling thread: position in its operation
    parg,               \* that thread: its cam_id argument
    p_keys,             \* that thread, in get_all_frames: the keys still to visit
    p_out,              \* that thread: how its last operation ended
    known_faces,        \* FaceDetector.known_faces: sequence of [name, embedding]
    recognition_threshold, \* FaceDetector.recognition_threshold, in hundredths
    lpc,                \* a reload running beside other calls: its position
    l_rows,             \* that reload: the entries it has still to append
    l_old,              \* that reload (history): known_faces when it began
    mpc,                \* recognize_faces: position ("idle": never called,
                        \* "m_done": returned)
    m_faces,            \* recognize_faces: its argument, a sequence of embeddings
    m_embs,             \* recognize_faces: known_embeddings (line 182)
    m_result,           \* recognize_faces: results, and after "m_done" the value returned
    m_thr,              \* recognize_faces (history): the threshold when it was called
    m_galleries,        \* recognize_faces (history): the complete galleries, before
                        \* or after a reload, that existed during the call
    a_ret,              \* add_known_face: what the last call returned ("none",
                        \* "True", "False")
    d_img,              \* detect_faces: the argument of the last call
    d_ret               \* detect_faces: what the last call returned

registries == << capture_threads, capture_objects, stop_events, frame_queues >>
workerVars == << pc, cam, src, cap, retry_count, consecutive_failures,
                 failed_reads, frame, why >>
callerVars == << spc, sop, sarg >>
loaderVars == << lpc, l_rows, l_old >>
matcherVars == << mpc, m_faces, m_embs, m_result, m_thr, m_galleries >>
registerVars == << a_ret, d_img, d_ret >>
faceVars == << known_faces, recognition_threshold, loaderVars, matcherVars,
              registerVars >>
pollerVars == << ppc, parg, p_keys, p_out >>
cameraVars == << cameras, registries, thread_lock, workerVars, threadCap, callerVars,
                pollerVars >>
vars == << cameras, capture_threads, capture_objects, stop_events, frame_queues,
           thread_lock, pc, cam, src, cap, retry_count, consecutive_failures,
           failed_reads, frame, why, threadCap, spc, sop, sarg, pollerVars,
           faceVars >>

\* ---------------------------------------------------------------- helpers
Del(f, k) == [ x \in (DOMAIN f) \ {k} |-> f[x] ]
Put(f, k, v) == [ x \in (DOMAIN f) \cup {k} |-> IF x = k THEN v ELSE f[x] ]

\* The frames in existence: those in the queues q and in the workers' hands f.
LiveTags(q, f) ==
    (UNION { { q[i][k] : k \in 1..Len(q[i]) } : i \in DOMAIN q }
       \cup { f[t] : t \in ThreadIds }) \ {0}

\* The rank of frame x in capture order among the frames in live.
Rank(x, live) == Cardinality({ y \in live : y <= x })

\* The queues and hands after a step, frames renamed by their rank.
SetFrames(q, f) ==
    LET live == LiveTags(q, f) IN
    /\ frame_queues' = [ i \in DOMAIN q |->
                            [ k \in 1..Len(q[i]) |-> Rank(q[i][k], live) ] ]
    /\ frame' = [ t \in ThreadIds |-> IF f[t] = 0 THEN 0 ELSE Rank(f[t], live) ]

\* The name of a frame captured now: later than every frame in existence.
NewFrame == Cardinality(LiveTags(frame_queues, frame)) + 1

\* threading.Thread.is_alive()
is_alive(t) == pc[t] # "off"

\* A worker that cannot exit within the join timeout: it is inside a device
\* call (cv2.VideoCapture(source) or cap.read(), which may hang), or it waits
\* for thread_lock, which the joining caller holds.
Blocked(t) ==
    \/ pc[t] \in {"w_open", "w_read"}
    \/ pc[t] = "w_store" /\ thread_lock = "caller"

\* The range of the threshold slider (main_window.py, line 545), and the
\* thresholds considered, in hundredths.
SliderMin == 50
SliderMax == 100
Thresholds == {SliderMin, 60, SliderMax}

\* An image: the faces the model finds in it, by their embeddings, and
\* whether detect_faces meets an exception on it ("no"; "get": self.model.get
\* raises; "face": the processing of a face found raises).
Image(f, r) == [faces |-> f, raises |-> r]
NoImage == Image(<< >>, "-")

\* The state once FaceDetector.__init__ (face_detection.py, lines 37-45) has
\* returned, the threshold being one of those the configuration may hold.
FaceDetectorInit(thresholds) ==
    /\ recognition_threshold \in thresholds
    /\ known_faces = << >>
    /\ lpc = "idle"
    /\ l_rows = << >>
    /\ l_old = << >>
    /\ mpc = "idle"
    /\ m_faces = << >>
    /\ m_embs = << >>
    /\ m_result = << >>
    /\ m_thr = 0
    /\ m_galleries = {}
    /\ a_ret = "none"
    /\ d_img = NoImage
    /\ d_ret = << >>

\* The state once CameraManager.__init__ (lines 24-31) has returned.
CameraManagerInit(cap_of_threads, docs) ==
    /\ threadCap = cap_of_threads
    /\ \E doc \in docs : cameras = CamerasOf(doc, Len(doc))
    /\ capture_threads = << >>
    /\ capture_objects = << >>
    /\ stop_events = << >>
    /\ frame_queues = << >>
    /\ thread_lock = "free"
    /\ pc = [t \in ThreadIds |-> "off"]
    /\ cam = [t \in ThreadIds |-> 0]
    /\ src = [t \in ThreadIds |-> "-"]
    /\ cap = [t \in ThreadIds |-> "none"]
    /\ retry_count = [t \in ThreadIds |-> 0]
    /\ consecutive_failures = [t \in ThreadIds |-> 0]
    /\ failed_reads = [t \in ThreadIds |-> 0]
    /\ frame = [t \in ThreadIds |-> 0]
    /\ why = [t \in ThreadIds |-> "-"]
    /\ spc = "idle"
    /\ sop = "none"
    /\ sarg = 0
    /\ ppc = "idle"
    /\ parg = 0
    /\ p_keys = {}
    /\ p_out = "-"

\* The state once both objects are constructed; the camera side is studied
\* with the face detector at rest.
InitWith(cap_of_threads) ==
    /\ CameraManagerInit(cap_of_threads, ValidDocs)
    /\ FaceDetectorInit({SliderMin})

\* ------------------------------------------------------- the caller's side
CallerIdle == spc = "idle"

Return ==
    /\ spc' = "idle"
    /\ sop' = "none"
    /\ sarg' = 0

\* _validate_camera_source: a network source answers the HEAD request or
\* not (reachable); every other source is accepted.
validate_camera_source(source, reachable) ==
    IF source = "net" THEN reachable ELSE TRUE

\* Variant of StartAccepted that forgets the enabled flag (lines 177-179).
StartAcceptedIgnoringEnabled(id, reachable) ==
    /\ id \in DOMAIN cameras
    /\ validate_camera_source(cameras[id].source, reachable)

\* start_camera, lines 173-186: the checks made before anything is touched.
\* When they fail start_camera returns False.
StartAccepted(id, reachable) ==
    /\ id \in DOMAIN cameras
    /\ cameras[id].enabled
    /\ validate_camera_source(cameras[id].source, reachable)

\* Variant of HasExistingThread that never finds a registered worker.
NoExistingThread(id) == FALSE

\* start_camera, line 189 and stop_camera, line 220.
HasExistingThread(id) == id \in DOMAIN capture_threads

\* Variant of stop_camera_returns that cleans up and answers True for any id.
stop_camera_always(id) == TRUE

\* What stop_camera(id) returns (lines 220-224).
stop_camera_returns(id) == HasExistingThread(id)

\* _cleanup_camera_thread, lines 36-39: take the lock, raise the stop signal.
CleanupBegin(id) ==
    /\ thread_lock = "free"
    /\ thread_lock' = "caller"
    /\ stop_events' = IF id \in DOMAIN stop_events
                      THEN [stop_events EXCEPT ![id] = TRUE] ELSE stop_events
    /\ spc' = "cl_join"
    /\ sarg' = id

\* start_camera, lines 171-191, with the answer of the source's host given.
StartCameraWith(id, reachable) ==
    /\ CallerIdle
    /\ IF ~StartAccepted(id, reachable)
       THEN UNCHANGED vars
       ELSE /\ sop' = "start"
            /\ IF HasExistingThread(id)
               THEN /\ CleanupBegin(id)
                    /\ UNCHANGED << cameras, capture_threads, capture_objects,
                                    frame_queues, workerVars, threadCap, faceVars, pollerVars >>
               ELSE /\ spc' = "st_queue"
                    /\ sarg' = id
                    /\ UNCHANGED << cameras, registries, thread_lock, workerVars,
                                    threadCap, faceVars, pollerVars >>

\* start_camera, lines 171-191.
StartCamera(id) == \E reachable \in BOOLEAN : StartCameraWith(id, reachable)

\* stop_camera, lines 218-224.
StopCamera(id) ==
    /\ CallerIdle
    /\ IF stop_camera_returns(id)
       THEN /\ sop' = "stop"
            /\ CleanupBegin(id)
            /\ UNCHANGED << cameras, capture_threads, capture_objects,
                            frame_queues, workerVars, threadCap, faceVars, pollerVars >>
       ELSE UNCHANGED vars

\* thread.join(timeout) returns: the thread has ended, or the timeout has
\* passed with the thread unable to end.
JoinReturns(t) == ~is_alive(t) \/ Blocked(t)

\* _cleanup_camera_thread, lines 42-54.
CleanupJoin ==
    /\ spc = "cl_join"
    /\ IF sarg \in DOMAIN capture_threads
       THEN /\ JoinReturns(capture_threads[sarg])
            /\ capture_threads' = Del(capture_threads, sarg)
       ELSE UNCHANGED capture_threads
    /\ spc' = "cl_cap"
    /\ UNCHANGED << cameras, capture_objects, stop_events, frame_queues,
                    thread_lock, workerVars, threadCap, faceVars, pollerVars, sop, sarg >>

\* _cleanup_camera_thread, lines 57-65: cap.release() if cap.isOpened().
CleanupCapture ==
    /\ spc = "cl_cap"
    /\ IF sarg \in DOMAIN capture_objects
       THEN /\ cap' = [cap EXCEPT ![capture_objects[sarg]] =
                          IF @ = "open" THEN "released" ELSE @]
            /\ capture_objects' = Del(capture_objects, sarg)
       ELSE UNCHANGED << cap, capture_objects >>
    /\ spc' = "cl_queue"
    /\ UNCHANGED << cameras, capture_threads, stop_events, frame_queues,
                    thread_lock, pc, cam, src, retry_count, consecutive_failures,
                    frame, why, failed_reads, threadCap, faceVars, pollerVars, sop, sarg >>

\* _cleanup_camera_thread, lines 68-78: empty the queue, drop it.
CleanupQueue ==
    /\ spc = "cl_queue"
    /\ IF sarg \in DOMAIN frame_queues
       THEN SetFrames(Del(frame_queues, sarg), frame)
       ELSE UNCHANGED << frame_queues, frame >>
    /\ spc' = "cl_event"
    /\ UNCHANGED << cameras, capture_threads, capture_objects, stop_events,
                    thread_lock, pc, cam, src, cap, retry_count,
                    consecutive_failures, why, failed_reads, threadCap, faceVars, pollerVars, sop, sarg >>

\* _cleanup_camera_thread, lines 81-84, and the end of the with block; then
\* stop_camera returns True (line 223), start_camera goes on to line 193,
\* stop_all_cameras goes on with its loop (line 166).
CleanupEnd ==
    /\ spc = "cl_event"
    /\ stop_events' = IF sarg \in DOMAIN stop_events
                      THEN Del(stop_events, sarg) ELSE stop_events
    /\ thread_lock' = "free"
    /\ IF sop = "stop"
       THEN Return
       ELSE /\ spc' = IF sop = "stop_all" THEN "sa_next" ELSE "st_queue"
            /\ UNCHANGED << sop, sarg >>
    /\ UNCHANGED << cameras, capture_threads, capture_objects, frame_queues,
                    workerVars, threadCap, faceVars, pollerVars >>

\* start_camera, line 195: a new, empty Queue(maxsize=2).
StartQueue ==
    /\ spc = "st_queue"
    /\ SetFrames(Put(frame_queues, sarg, << >>), frame)
    /\ spc' = "st_event"
    /\ UNCHANGED << cameras, capture_threads, capture_objects, stop_events,
                    thread_lock, pc, cam, src, cap, retry_count,
                    consecutive_failures, why, failed_reads, threadCap, faceVars, pollerVars, sop, sarg >>

\* start_camera, line 196: a new Event, not set.
StartEvent ==
    /\ spc = "st_event"
    /\ stop_events' = Put(stop_events, sarg, FALSE)
    /\ spc' = "st_thread"
    /\ UNCHANGED << cameras, capture_threads, capture_objects, frame_queues,
                    thread_lock, workerVars, threadCap, faceVars, pollerVars, sop, sarg >>

\* A thread object the program no longer refers to: it has ended (or was
\* never created) and neither it nor its handle is in a registry.
FreeThread(t) ==
    /\ t <= threadCap
    /\ ~is_alive(t)
    /\ \A i \in DOMAIN capture_threads : capture_threads[i] # t
    /\ \A i \in DOMAIN capture_objects : capture_objects[i] # t

\* start_camera, lines 199-211: create the thread, register it under the
\* lock, start it; start_camera returns True.
StartThread ==
    /\ spc = "st_thread"
    /\ thread_lock = "free"
    /\ \E t \in ThreadIds :
        /\ FreeThread(t)
        /\ \A u \in ThreadIds : FreeThread(u) => t <= u
        /\ capture_threads' = Put(capture_threads, sarg, t)
        /\ pc' = [pc EXCEPT ![t] = "w_begin"]
        /\ cam' = [cam EXCEPT ![t] = sarg]
        /\ cap' = [cap EXCEPT ![t] = "none"]
    /\ Return
    /\ UNCHANGED << cameras, capture_objects, stop_events, frame_queues,
                    thread_lock, src, retry_count, consecutive_failures,
                    frame, why, failed_reads, threadCap, faceVars, pollerVars >>

\* queue.Queue.get_nowait(): the head of the queue.
get_nowait(q) == Head(q)

\* What get_frame(id) returns (lines 342-350); 0 stands for None.
get_frame_returns(id) ==
    IF id \in DOMAIN frame_queues /\ frame_queues[id] # << >>
    THEN get_nowait(frame_queues[id]) ELSE 0

\* get_frame, lines 342-350.
GetFrame(id) ==
    /\ CallerIdle
    /\ IF get_frame_returns(id) # 0
       THEN SetFrames([frame_queues EXCEPT ![id] = Tail(@)], frame)
       ELSE UNCHANGED << frame_queues, frame >>
    /\ UNCHANGED << cameras, capture_threads, capture_objects, stop_events,
                    thread_lock, pc, cam, src, cap, retry_count,
                    consecutive_failures, why, failed_reads, threadCap, faceVars, pollerVars, callerVars >>

\* Variant of is_running that leaves out is_alive().
is_registered(id) == id \in DOMAIN capture_threads

\* What get_all_frames() returns (lines 352-359): for every camera that has
\* a frame queue, what get_frame returns for it, if that is a frame.
get_all_frames_returns ==
    [ id \in { i \in DOMAIN frame_queues : get_frame_returns(i) # 0 }
        |-> get_frame_returns(id) ]

\* get_all_frames, lines 352-359: get_frame for every key of frame_queues.
GetAllFrames ==
    /\ CallerIdle
    /\ SetFrames([ id \in DOMAIN frame_queues |->
                     IF get_frame_returns(id) # 0
                     THEN Tail(frame_queues[id]) ELSE frame_queues[id] ],
                 frame)
    /\ UNCHANGED << cameras, capture_threads, capture_objects, stop_events,
                    thread_lock, pc, cam, src, cap, retry_count,
                    consecutive_failures, why, failed_reads, threadCap, faceVars, pollerVars, callerVars >>

\* get_camera_status, line 367.
is_running(id) ==
    id \in DOMAIN capture_threads /\ is_alive(capture_threads[id])

\* What get_camera_status(id) returns (lines 361-377); known = FALSE stands
\* for the empty dict.
get_camera_status(id) ==
    IF id \notin DOMAIN cameras
    THEN [known |-> FALSE, running |-> FALSE, size |-> 0,
          enabled |-> FALSE, source |-> "-"]
    ELSE [known |-> TRUE,
          running |-> is_running(id),
          size |-> IF id \in DOMAIN frame_queues THEN Len(frame_queues[id]) ELSE 0,
          enabled |-> cameras[id].enabled,
          source |-> cameras[id].source]

\* get_camera_status, lines 361-377: reads under the lock, changes nothing.
GetCameraStatus(id) ==
    /\ CallerIdle
    /\ thread_lock = "free"
    /\ get_camera_status(id).known \in BOOLEAN
    /\ UNCHANGED vars

\* load_config, lines 89-113.  An unreadable file raises before self.cameras
\* is touched; a malformed record raises after self.cameras.clear() and after
\* the records before it were stored.
LoadConfig ==
    /\ CallerIdle
    /\ \/ UNCHANGED cameras
       \/ \E doc \in ConfigDocs : cameras' = CamerasOf(doc, GoodPrefix(doc))
    /\ UNCHANGED << registries, thread_lock, workerVars, threadCap, faceVars, pollerVars, callerVars >>

\* ------------------------------------------------------ the capture worker
\* _capture_frames, lines 226-340, for thread t.
Goto(t, p) == pc' = [pc EXCEPT ![t] = p]

\* Leave for the finally block (line 331) on the path named by reason.
Leave(t, reason) ==
    /\ Goto(t, "w_final")
    /\ why' = [why EXCEPT ![t] = reason]

\* The stop signal as the worker reads it: self.stop_events[cam_id].is_set();
\* the lookup raises KeyError when the entry is gone.
StopEventMissing(t) == cam[t] \notin DOMAIN stop_events
StopEventSet(t) == stop_events[cam[t]]

\* line 228 (outside the try: a KeyError ends the thread at once) to line 236.
WorkerBegin(t) ==
    /\ pc[t] = "w_begin"
    /\ IF cam[t] \in DOMAIN cameras
       THEN /\ src' = [src EXCEPT ![t] = cameras[cam[t]].source]
            /\ Goto(t, "w_retry")
       ELSE /\ Goto(t, "off")
            /\ src' = src
    /\ UNCHANGED << cameras, registries, thread_lock, cam, cap, retry_count,
                    consecutive_failures, frame, why, failed_reads, threadCap, faceVars, pollerVars, callerVars >>

\* Variant of RetriesLeft that allows one attempt more.
RetriesLeftOffByOne(n) == n <= max_retries

\* line 239, the condition of the open-retry loop.
RetriesLeft(n) == n < max_retries

\* line 239 with n attempts made, and lines 270-272 when the loop ends
\* without an open device.
RetryCheck(t, n) ==
    IF StopEventMissing(t) THEN Leave(t, "fatal")
    ELSE IF RetriesLeft(n) /\ ~StopEventSet(t)
         THEN Goto(t, "w_open") /\ why' = why
         ELSE Leave(t, "stopped_in_open")

\* line 239, on entry to the open-retry loop.
WorkerRetryCheck(t) ==
    /\ pc[t] = "w_retry"
    /\ RetryCheck(t, retry_count[t])
    /\ UNCHANGED << cameras, registries, thread_lock, cam, src, cap, retry_count,
                    consecutive_failures, frame, failed_reads, threadCap, faceVars, pollerVars, callerVars >>

\* lines 241-244 and 261-268: cv2.VideoCapture(source) opens the device or
\* not.  After a failed attempt with attempts left the worker sleeps and
\* evaluates line 239 again.
WorkerOpen(t) ==
    /\ pc[t] = "w_open"
    /\ \/ /\ cap' = [cap EXCEPT ![t] = "open"]
          /\ Goto(t, "w_store")
          /\ UNCHANGED << retry_count, why >>
       \/ /\ cap' = [cap EXCEPT ![t] = "failed"]
          /\ retry_count' = [retry_count EXCEPT ![t] = @ + 1]
          /\ IF RetriesLeft(retry_count[t] + 1)
             THEN RetryCheck(t, retry_count[t] + 1)
             ELSE Leave(t, "open_failed")
    /\ UNCHANGED << cameras, registries, thread_lock, cam, src,
                    consecutive_failures, frame, failed_reads, threadCap, faceVars, pollerVars, callerVars >>

\* lines 247-259 and 270-275: store the handle under the lock, enter the
\* loop.  source and retry_count are not read again.
WorkerStore(t) ==
    /\ pc[t] = "w_store"
    /\ thread_lock = "free"
    /\ capture_objects' = Put(capture_objects, cam[t], t)
    /\ consecutive_failures' = [consecutive_failures EXCEPT ![t] = 0]
    /\ retry_count' = [retry_count EXCEPT ![t] = 0]
    /\ src' = [src EXCEPT ![t] = "-"]
    /\ Goto(t, "w_loop")
    /\ UNCHANGED << cameras, capture_threads, stop_events, frame_queues,
                    thread_lock, cam, cap, frame, why, failed_reads, threadCap, faceVars, pollerVars,
                    callerVars >>

\* line 278, the condition of the capture loop.
LoopCheck(t) ==
    IF StopEventMissing(t) THEN Leave(t, "fatal")
    ELSE IF StopEventSet(t) THEN Leave(t, "stopped")
    ELSE Goto(t, "w_read") /\ why' = why

\* line 278, after the loop is entered and after a published frame.
WorkerLoopCheck(t) ==
    /\ pc[t] = "w_loop"
    /\ LoopCheck(t)
    /\ UNCHANGED << cameras, registries, thread_lock, cam, src, cap, retry_count,
                    consecutive_failures, frame, failed_reads, threadCap, faceVars, pollerVars, callerVars >>

\* lines 286 and 324.
FailureLimitReached(n) == n >= max_consecutive_failures

\* line 294.
ResetFailures(n) == 0

\* lines 280-302: cap.read().  A released handle delivers nothing.  After a
\* failed read below the limit (lines 283-291) the worker sleeps and
\* evaluates line 278 again.
WorkerRead(t) ==
    /\ pc[t] = "w_read"
    /\ \/ /\ cap[t] = "open"
          /\ SetFrames(frame_queues, [frame EXCEPT ![t] = NewFrame])
          /\ consecutive_failures' =
                [consecutive_failures EXCEPT ![t] = ResetFailures(@)]
          /\ failed_reads' = [failed_reads EXCEPT ![t] = 0]
          /\ Goto(t, "w_pub")
          /\ why' = why
       \/ /\ consecutive_failures' = [consecutive_failures EXCEPT ![t] = @ + 1]
          /\ failed_reads' = [failed_reads EXCEPT ![t] = @ + 1]
          /\ IF FailureLimitReached(consecutive_failures[t] + 1)
             THEN Leave(t, "read_failures")
             ELSE LoopCheck(t)
          /\ UNCHANGED << frame_queues, frame >>
    /\ UNCHANGED << cameras, capture_threads, capture_objects, stop_events,
                    thread_lock, cam, src, cap, retry_count, threadCap, faceVars, pollerVars, callerVars >>

\* The handler of lines 321-326: an exception in the loop body counts as a
\* failed iteration; the frame in hand is lost.
CountFailure(t) ==
    /\ consecutive_failures' = [consecutive_failures EXCEPT ![t] = @ + 1]
    /\ SetFrames(frame_queues, [frame EXCEPT ![t] = 0])
    /\ IF FailureLimitReached(consecutive_failures[t] + 1)
       THEN Leave(t, "loop_errors")
       ELSE Goto(t, "w_loop") /\ why' = why

\* line 305: is there a queue for this camera.  Without one the frame is
\* dropped and the iteration ends (line 319).
WorkerPublishCheck(t) ==
    /\ pc[t] = "w_pub"
    /\ IF cam[t] \in DOMAIN frame_queues
       THEN Goto(t, "w_full") /\ UNCHANGED << frame_queues, frame >>
       ELSE Goto(t, "w_loop") /\ SetFrames(frame_queues, [frame EXCEPT ![t] = 0])
    /\ UNCHANGED << cameras, capture_threads, capture_objects, stop_events,
                    thread_lock, cam, src, cap, retry_count,
                    consecutive_failures, why, failed_reads, threadCap, faceVars, pollerVars, callerVars >>

\* queue.Queue.full() of a Queue(maxsize=2).
full(q) == Len(q) >= QueueMaxSize

\* line 307.  self.frame_queues[cam_id] raises KeyError when the entry is gone.
WorkerFullCheck(t) ==
    /\ pc[t] = "w_full"
    /\ IF cam[t] \notin DOMAIN frame_queues
       THEN CountFailure(t)
       ELSE /\ Goto(t, IF full(frame_queues[cam[t]]) THEN "w_evict" ELSE "w_put")
            /\ UNCHANGED << consecutive_failures, frame_queues, frame, why >>
    /\ UNCHANGED << cameras, capture_threads, capture_objects, stop_events,
                    thread_lock, cam, src, cap, retry_count, failed_reads, threadCap, faceVars, pollerVars, callerVars >>

\* What the eviction of lines 308-311 leaves in the queue: get_nowait()
\* takes the head; queue.Empty is passed over.
evict(q) == IF q = << >> THEN q ELSE Tail(q)

\* lines 308-311.
WorkerEvict(t) ==
    /\ pc[t] = "w_evict"
    /\ IF cam[t] \notin DOMAIN frame_queues
       THEN CountFailure(t)
       ELSE /\ SetFrames([frame_queues EXCEPT ![cam[t]] = evict(@)], frame)
            /\ Goto(t, "w_put")
            /\ UNCHANGED << consecutive_failures, why >>
    /\ UNCHANGED << cameras, capture_threads, capture_objects, stop_events,
                    thread_lock, cam, src, cap, retry_count, failed_reads, threadCap, faceVars, pollerVars, callerVars >>

\* queue.Queue.put(item, block=False): appended, or queue.Full when full.
put_nowait(q, item) == IF full(q) THEN q ELSE Append(q, item)

\* lines 313-319: put(frame, block=False); queue.Full drops the frame.
WorkerPut(t) ==
    /\ pc[t] = "w_put"
    /\ IF cam[t] \notin DOMAIN frame_queues
       THEN CountFailure(t)
       ELSE /\ SetFrames([frame_queues EXCEPT ![cam[t]] = put_nowait(@, frame[t])],
                         [frame EXCEPT ![t] = 0])
            /\ Goto(t, "w_loop")
            /\ UNCHANGED << consecutive_failures, why >>
    /\ UNCHANGED << cameras, capture_threads, capture_objects, stop_events,
                    thread_lock, cam, src, cap, retry_count, failed_reads, threadCap, faceVars, pollerVars, callerVars >>

\* cap.release() on a handle in state c.
release(c) == IF c = "released" THEN "released_twice" ELSE "released"

\* lines 331-340: the finally block releases the handle the worker holds,
\* and the thread ends.
WorkerFinally(t) ==
    /\ pc[t] = "w_final"
    /\ cap' = [cap EXCEPT ![t] = IF @ = "none" THEN @ ELSE release(@)]
    /\ Goto(t, "off")
    /\ retry_count' = [retry_count EXCEPT ![t] = 0]
    /\ consecutive_failures' = [consecutive_failures EXCEPT ![t] = 0]
    /\ failed_reads' = [failed_reads EXCEPT ![t] = 0]
    /\ src' = [src EXCEPT ![t] = "-"]
    /\ why' = [why EXCEPT ![t] = "-"]
    /\ UNCHANGED << cameras, registries, thread_lock, cam, frame,
                    threadCap, faceVars, pollerVars, callerVars >>

Worker(t) ==
    \/ WorkerBegin(t)
    \/ WorkerRetryCheck(t)
    \/ WorkerOpen(t)
    \/ WorkerStore(t)
    \/ WorkerLoopCheck(t)
    \/ WorkerRead(t)
    \/ WorkerPublishCheck(t)
    \/ WorkerFullCheck(t)
    \/ WorkerEvict(t)
    \/ WorkerPut(t)
    \/ WorkerFinally(t)

CallerOther ==
    \/ \E id \in CamIds : GetFrame(id)
    \/ GetAllFrames
    \/ \E id \in CamIds : GetCameraStatus(id)
    \/ LoadConfig
    \/ CleanupJoin
    \/ CleanupCapture
    \/ CleanupQueue
    \/ CleanupEnd
    \/ StartQueue
    \/ StartEvent
    \/ StartThread

Caller ==
    \/ \E id \in CamIds : StartCamera(id)
    \/ \E id \in CamIds : StopCamera(id)
    \/ CallerOther

Next ==
    \/ Caller
    \/ \E t \in ThreadIds : Worker(t)

\* The supervisor with MaxThreads thread objects.
Init == InitWith(MaxThreads)
Spec == Init /\ [][Next]_vars

\* The same with one more thread object: a worker that outlived the timeout
\* of its stop can run beside its successor.
InitWide == InitWith(MaxThreads + 1)
SpecWide == InitWide /\ [][Next]_vars

\* The supervisor used without stop_camera: a camera is only ever started,
\* and started again.
NextStartOnly ==
    \/ \E id \in CamIds : StartCamera(id)
    \/ CallerOther
    \/ \E t \in ThreadIds : Worker(t)

SpecStartOnly == InitWide /\ [][NextStartOnly]_vars


\* The supervisor started and stopped, its threads scheduled fairly.  A call
\* of start_camera or stop_camera that has begun runs to its end: its code
\* is a straight line and its join has a timeout.
CallInProgress ==
    \/ CleanupJoin
    \/ CleanupCapture
    \/ CleanupQueue
    \/ CleanupEnd
    \/ StartQueue
    \/ StartEvent
    \/ StartThread

NextLive ==
    \/ \E id \in CamIds : StartCamera(id)
    \/ \E id \in CamIds : StopCamera(id)
    \/ CallInProgress
    \/ \E t \in ThreadIds : Worker(t)

\* A worker thread is scheduled, its device calls return, and it obtains
\* thread_lock when the lock is free again and again.
Fairness ==
    /\ WF_vars(CallInProgress)
    /\ \A t \in ThreadIds : SF_vars(Worker(t))

SpecLive == InitWide /\ [][NextLive]_vars /\ Fairness


\* lines 296-302 and 321-326: cv2.rotate raises on the frame just read (a
\* cv2.error); the handler counts a failure and the frame is lost.
WorkerRotateRaises(t) ==
    /\ pc[t] = "w_pub"
    /\ CountFailure(t)
    /\ UNCHANGED << cameras, capture_threads, capture_objects, stop_events,
                    thread_lock, cam, src, cap, retry_count, failed_reads,
                    threadCap, faceVars, pollerVars, callerVars >>

\* The supervisor with cameras whose frames may fail to rotate, its threads
\* scheduled fairly.
NextRaising ==
    \/ NextLive
    \/ \E t \in ThreadIds : WorkerRotateRaises(t)

SpecRaising == Init /\ [][NextRaising]_vars /\ Fairness


\* stop_all_cameras, lines 163-164: the keys of capture_threads are listed
\* under the lock.  No call adds a key before stop_all_cameras returns, so
\* the ids still to stop are at any time the keys still registered.
StopAllCameras ==
    /\ CallerIdle
    /\ thread_lock = "free"
    /\ sop' = "stop_all"
    /\ spc' = "sa_next"
    /\ sarg' = 0
    /\ UNCHANGED << cameras, registries, thread_lock, workerVars, threadCap,
                    faceVars, pollerVars >>

\* stop_all_cameras, lines 166-169: stop_camera for the next id listed, or
\* return when none is left.
StopAllNext ==
    /\ spc = "sa_next"
    /\ IF DOMAIN capture_threads = {}
       THEN /\ Return
            /\ UNCHANGED << cameras, registries, thread_lock, workerVars,
                            threadCap, faceVars, pollerVars >>
       ELSE /\ \E id \in DOMAIN capture_threads : CleanupBegin(id)
            /\ UNCHANGED << cameras, capture_threads, capture_objects,
                            frame_queues, workerVars, threadCap, faceVars,
                            pollerVars, sop >>

\* The supervisor with stop_all_cameras beside start_camera and stop_camera.
NextStopAll ==
    \/ Next
    \/ StopAllCameras
    \/ StopAllNext

SpecStopAll == Init /\ [][NextStopAll]_vars


\* ------------------------------------------- a second thread that only reads
\* get_frame, get_all_frames and get_camera_status called from a thread
\* other than the one that starts and stops cameras; a step is one access
\* to a dict of the supervisor.
PollerIdle == ppc = "idle"

\* The operation ends; parg keeps the camera it was about.
PollReturn(out) ==
    /\ ppc' = "idle"
    /\ parg' = parg
    /\ p_out' = out

\* get_frame, lines 344-345.
PollGetFrame(id) ==
    /\ PollerIdle
    /\ IF id \in DOMAIN frame_queues
       THEN ppc' = "gf_get" /\ parg' = id /\ p_out' = "-"
       ELSE ppc' = "idle" /\ parg' = id /\ p_out' = "None"
    /\ UNCHANGED << cameras, registries, thread_lock, workerVars, threadCap,
                    callerVars, p_keys, faceVars >>

\* lines 347-350: self.frame_queues[cam_id] raises KeyError when the entry is
\* gone; only queue.Empty is caught.  The position afterwards is after.
QueueGet(after) ==
    IF parg \notin DOMAIN frame_queues
    THEN PollReturn("KeyError") /\ UNCHANGED << frame_queues, frame >>
    ELSE /\ IF frame_queues[parg] = << >>
            THEN UNCHANGED << frame_queues, frame >>
            ELSE SetFrames([frame_queues EXCEPT ![parg] = Tail(@)], frame)
         /\ IF after = "idle"
            THEN PollReturn(IF frame_queues[parg] = << >> THEN "None" ELSE "frame")
            ELSE ppc' = after /\ parg' = parg /\ p_out' = p_out

\* get_frame, lines 347-350.
PollGet ==
    /\ ppc = "gf_get"
    /\ QueueGet("idle")
    /\ UNCHANGED << cameras, capture_threads, capture_objects, stop_events,
                    thread_lock, pc, cam, src, cap, retry_count,
                    consecutive_failures, why, failed_reads, threadCap,
                    callerVars, p_keys, faceVars >>

\* get_all_frames, lines 354-355: list(self.frame_queues.keys()).
PollAllFrames ==
    /\ PollerIdle
    /\ p_keys' = DOMAIN frame_queues
    /\ ppc' = "ga_next"
    /\ p_out' = "-"
    /\ UNCHANGED << cameras, registries, thread_lock, workerVars, threadCap,
                    callerVars, parg, faceVars >>

\* get_all_frames, lines 355-359: the next key, and lines 344-345 for it.
PollAllNext ==
    /\ ppc = "ga_next"
    /\ IF p_keys = {}
       THEN PollReturn("frames") /\ p_keys' = p_keys
       ELSE LET id == CHOOSE i \in p_keys : \A j \in p_keys : i <= j IN
            /\ p_keys' = p_keys \ {id}
            /\ p_out' = p_out
            /\ IF id \in DOMAIN frame_queues
               THEN ppc' = "ga_get" /\ parg' = id
               ELSE ppc' = ppc /\ parg' = parg
    /\ UNCHANGED << cameras, registries, thread_lock, workerVars, threadCap,
                    callerVars, faceVars >>

\* get_all_frames, line 356, in get_frame at lines 347-350.
PollAllGet ==
    /\ ppc = "ga_get"
    /\ QueueGet("ga_next")
    /\ p_keys' = IF parg \in DOMAIN frame_queues THEN p_keys ELSE {}
    /\ UNCHANGED << cameras, capture_threads, capture_objects, stop_events,
                    thread_lock, pc, cam, src, cap, retry_count,
                    consecutive_failures, why, failed_reads, threadCap,
                    callerVars, faceVars >>

\* get_camera_status, lines 363-364.
PollStatus(id) ==
    /\ PollerIdle
    /\ IF id \in DOMAIN cameras
       THEN ppc' = "cs_lock" /\ parg' = id /\ p_out' = "-"
       ELSE ppc' = "idle" /\ parg' = id /\ p_out' = "empty"
    /\ UNCHANGED << cameras, registries, thread_lock, workerVars, threadCap,
                    callerVars, p_keys, faceVars >>

\* get_camera_status, lines 366-367: the lock is taken, is_running is read,
\* the lock is given back.
PollStatusLock ==
    /\ ppc = "cs_lock"
    /\ thread_lock = "free"
    /\ ppc' = "cs_check"
    /\ UNCHANGED << cameras, registries, thread_lock, workerVars, threadCap,
                    callerVars, parg, p_keys, p_out, faceVars >>

\* get_camera_status, lines 371-373: self.cameras[cam_id].name, and the
\* condition  cam_id in self.frame_queues.
PollStatusCheck ==
    /\ ppc = "cs_check"
    /\ IF parg \notin DOMAIN cameras
       THEN PollReturn("KeyError_cameras")
       ELSE IF parg \in DOMAIN frame_queues
            THEN ppc' = "cs_size" /\ UNCHANGED << parg, p_out >>
            ELSE PollReturn("status")
    /\ UNCHANGED << cameras, registries, thread_lock, workerVars, threadCap,
                    callerVars, p_keys, faceVars >>

\* get_camera_status, lines 373-377: self.frame_queues[cam_id].qsize(), and
\* self.cameras[cam_id] twice more.
PollStatusSize ==
    /\ ppc = "cs_size"
    /\ PollReturn(IF parg \notin DOMAIN frame_queues THEN "KeyError"
                  ELSE IF parg \notin DOMAIN cameras THEN "KeyError_cameras"
                  ELSE "status")
    /\ UNCHANGED << cameras, registries, thread_lock, workerVars, threadCap,
                    callerVars, p_keys, faceVars >>

Poller ==
    \/ \E id \in CamIds : PollGetFrame(id)
    \/ PollGet
    \/ PollAllFrames
    \/ PollAllNext
    \/ PollAllGet
    \/ \E id \in CamIds : PollStatus(id)
    \/ PollStatusLock
    \/ PollStatusCheck
    \/ PollStatusSize

NextPolled ==
    \/ Caller
    \/ \E t \in ThreadIds : Worker(t)
    \/ Poller

\* The supervisor read from a second thread.
SpecPolled == Init /\ [][NextPolled]_vars


\* ============================================================ FaceDetector
\* ---------------------------------------------------------------- numbers
\* A similarity s stands for the float s / Scale; update_threshold divides
\* the slider value by the same number (main_window.py, line 697).
Scale == 100

\* The float nan (0.0 / 0.0 in numpy): no number of the model.
NaN == 0 - (Scale * Scale)

\* Python's  s > threshold  on floats: False when s is nan.
Exceeds(s, threshold) == s # NaN /\ s > threshold

\* ------------------------------------------------------------- embeddings
\* Vectors of float32; the model's have two components where the real ones
\* have 512.  E_short has the wrong length, E_zero has norm 0.
E_x == << 1, 0 >>
E_y == << 0, 1 >>
E_xy == << 3, 4 >>
E_zero == << 0, 0 >>
E_short == << 1 >>
E_none == << >>

RECURSIVE Dot(_, _)
\* np.dot of two vectors of the same length.
Dot(a, b) ==
    IF a = << >> THEN 0 ELSE Head(a) * Head(b) + Dot(Tail(a), Tail(b))

\* np.linalg.norm of a vector whose norm is an integer.
Norm(a) == LET d == Dot(a, a) IN CHOOSE n \in 0..d : n * n = d

\* The dot product alone, not divided by the norms.
SimilarityUnnormalised(k, e) == Dot(k, e) * Scale

\* One component of line 189-191: dot / (norm * norm); 0.0 / 0.0 is nan.
Similarity(k, e) ==
    IF Norm(k) * Norm(e) = 0 THEN NaN
    ELSE (Dot(k, e) * Scale) \div (Norm(k) * Norm(e))

\* The bytes of a stored embedding: whole float32 values and extra bytes.
tobytes(e) == [words |-> e, extra |-> 0]
Blob(e, x) == [words |-> e, extra |-> x]

\* np.frombuffer(blob, dtype=np.float32) raises ValueError when the size of
\* the buffer is no multiple of 4, and otherwise gives the floats, however
\* many there are.
frombuffer_raises(blob) == blob.extra % 4 # 0
frombuffer(blob) == blob.words

\* ------------------------------------------------------------ the stores
\* A row of the table known_faces.
Row(n, blob) == [name |-> n, embedding |-> blob]

\* A database: its rows, and whether the query succeeds.
Stores ==
    { [ok |-> TRUE,  rows |-> << Row("a", tobytes(E_x)), Row("b", tobytes(E_y)) >>],
      [ok |-> TRUE,  rows |-> << Row("a", tobytes(E_xy)) >>],
      [ok |-> TRUE,  rows |-> << Row("z", tobytes(E_zero)) >>],
      [ok |-> TRUE,  rows |-> << Row("a", tobytes(E_x)), Row("b", tobytes(E_x)) >>],
      [ok |-> TRUE,  rows |-> << Row("a", tobytes(E_x)), Row("b", tobytes(E_short)) >>],
      [ok |-> TRUE,  rows |-> << Row("z", tobytes(E_zero)), Row("a", tobytes(E_x)) >>],
      [ok |-> TRUE,  rows |-> << Row("a", Blob(E_x, 1)), Row("b", tobytes(E_y)) >>],
      [ok |-> TRUE,  rows |-> << Row("a", Blob(E_x, 1)) >>],
      [ok |-> TRUE,  rows |-> << >>],
      [ok |-> FALSE, rows |-> << Row("a", tobytes(E_x)), Row("b", tobytes(E_y)) >>] }

\* database.get_known_faces() (database.py, lines 531-545): the rows, or []
\* when anything fails.
get_known_faces(store) == IF store.ok THEN store.rows ELSE << >>

\* A file of the known-faces directory: its stem, what it is ("image",
\* "other": no image suffix, "unreadable": cv2.imread gives None, "noface":
\* the model finds no face) and the embedding of the first face found.
File(n, k, e) == [name |-> n, kind |-> k, embedding |-> e]

\* A directory: whether it exists, and its files.
Dirs ==
    { [exists |-> FALSE, files |-> << >>],
      [exists |-> TRUE,  files |-> << File("a", "image", E_x), File("n", "other", E_none) >>],
      [exists |-> TRUE,  files |-> << File("u", "unreadable", E_none), File("b", "noface", E_none) >>] }

\* ------------------------------------------------------------ the gallery
KnownFace(n, e) == [name |-> n, embedding |-> e]

RECURSIVE FromRows(_)
\* load_known_faces_from_db, lines 127-144: one KnownFace per row, in order;
\* a row whose processing raises is skipped.
FromRows(rows) ==
    IF rows = << >> THEN << >>
    ELSE LET r == Head(rows) IN
         (IF frombuffer_raises(r.embedding) THEN << >>
          ELSE << KnownFace(r.name, frombuffer(r.embedding)) >>)
         \o FromRows(Tail(rows))

RECURSIVE FromFiles(_)
\* load_known_faces, lines 76-113: one KnownFace per image file with a face.
FromFiles(files) ==
    IF files = << >> THEN << >>
    ELSE LET f == Head(files) IN
         (IF f.kind = "image" THEN << KnownFace(f.name, f.embedding) >> ELSE << >>)
         \o FromFiles(Tail(files))

\* What a reload appends after self.known_faces.clear().
EntriesFromDb(store) == FromRows(get_known_faces(store))
EntriesFromDir(dir) == IF dir.exists THEN FromFiles(dir.files) ELSE << >>

\* ---------------------------------------------------------- recognize_faces
Range(seq) == { seq[i] : i \in 1..Len(seq) }

\* A result is the tuple (face, known face or None, similarity); None is
\* the name "-"; the face is the position of the result.
Unknown(s) == [name |-> "-", score |-> s]
Match(kf, s) == [name |-> kf.name, score |-> s]

\* One unknown result, however many faces there are.
OneUnknown(faces) == << Unknown(0) >>

\* lines 179 and 203: [(face, None, 0.0) for face in faces]
AllUnknown(faces) == [ i \in 1..Len(faces) |-> Unknown(0) ]

\* line 178:  not self.known_faces
GalleryEmpty(gallery) == Len(gallery) = 0

\* line 182: np.array([kf.embedding for kf in self.known_faces]); embeddings
\* of different lengths make no matrix (ValueError).
Embeddings(gallery) == [ i \in 1..Len(gallery) |-> gallery[i].embedding ]
ArrayRaises(embs) == \E i, j \in 1..Len(embs) : Len(embs[i]) # Len(embs[j])

\* line 185
NoEmbedding(e) == Len(e) = 0

\* lines 189-191: np.dot raises ValueError when the lengths differ, as they
\* do when known_embeddings is the empty array.
DotRaises(embs, e) ==
    \/ Len(embs) = 0
    \/ \E i \in 1..Len(embs) : Len(embs[i]) # Len(e)

RECURSIVE Similarities(_, _)
\* lines 189-191: the similarity of e to every row of known_embeddings.
Similarities(embs, e) ==
    IF embs = << >> THEN << >>
    ELSE << Similarity(Head(embs), e) >> \o Similarities(Tail(embs), e)

\* The first nan if there is one, and otherwise the last position of the
\* maximum.
argmax_last(sims) ==
    IF \E i \in 1..Len(sims) : sims[i] = NaN
    THEN CHOOSE i \in 1..Len(sims) :
            sims[i] = NaN /\ \A j \in 1..(i - 1) : sims[j] # NaN
    ELSE CHOOSE i \in 1..Len(sims) :
            /\ \A j \in 1..Len(sims) : sims[j] <= sims[i]
            /\ \A j \in (i + 1)..Len(sims) : sims[j] < sims[i]

\* line 193, np.argmax: the first nan if there is one, and otherwise the
\* first position of the maximum.
argmax(sims) ==
    IF \E i \in 1..Len(sims) : sims[i] = NaN
    THEN CHOOSE i \in 1..Len(sims) :
            sims[i] = NaN /\ \A j \in 1..(i - 1) : sims[j] # NaN
    ELSE CHOOSE i \in 1..Len(sims) :
            /\ \A j \in 1..Len(sims) : sims[j] <= sims[i]
            /\ \A j \in 1..(i - 1) : sims[j] < sims[i]

\* lines 185-199 for one face: embs is known_embeddings, gallery is
\* self.known_faces when line 197 reads it.  IndexError when the gallery has
\* no entry at the position found.
FaceRaises(embs, gallery, e, threshold) ==
    /\ ~NoEmbedding(e)
    /\ \/ DotRaises(embs, e)
       \/ LET sims == Similarities(embs, e) IN
          /\ Exceeds(sims[argmax(sims)], threshold)
          /\ argmax(sims) > Len(gallery)

FaceResult(embs, gallery, e, threshold) ==
    IF NoEmbedding(e) THEN Unknown(0)
    ELSE LET sims == Similarities(embs, e)
             max_idx == argmax(sims)
             max_similarity == sims[max_idx]
         IN  IF Exceeds(max_similarity, threshold)
             THEN Match(gallery[max_idx], max_similarity)
             ELSE Unknown(max_similarity)

\* recognize_faces(faces), lines 174-205, run without interference on the
\* gallery and the threshold given.
recognize_faces(gallery, faces, threshold) ==
    IF GalleryEmpty(gallery) THEN AllUnknown(faces)
    ELSE LET embs == Embeddings(gallery) IN
         IF \/ ArrayRaises(embs)
            \/ \E i \in 1..Len(faces) : FaceRaises(embs, gallery, faces[i], threshold)
         THEN AllUnknown(faces)
         ELSE [ i \in 1..Len(faces) |-> FaceResult(embs, gallery, faces[i], threshold) ]

\* The arguments considered: one face, or two of which the second is E_x.
FaceEmbeddings == { E_x, E_y, E_xy, E_zero, E_none }
FaceLists ==
    { << e >> : e \in FaceEmbeddings } \cup { << e, E_x >> : e \in FaceEmbeddings }


\* ------------------------------------------- the calls, from the UI thread
\* No call of FaceDetector is in progress.
DetectorIdle == lpc = "idle" /\ mpc \in {"idle", "m_done"}

\* load_known_faces(known_faces_dir), lines 66-119: clear, and return at once
\* when the directory is missing.
LoadKnownFaces(dir) ==
    /\ DetectorIdle
    /\ known_faces' = EntriesFromDir(dir)
    /\ UNCHANGED << recognition_threshold, loaderVars, matcherVars, cameraVars, registerVars >>

\* load_known_faces_from_db(database), lines 121-149.
LoadKnownFacesFromDb(store) ==
    /\ DetectorIdle
    /\ known_faces' = EntriesFromDb(store)
    /\ UNCHANGED << recognition_threshold, loaderVars, matcherVars, cameraVars, registerVars >>

\* recognize_faces(faces), lines 174-205.
RecognizeFaces(faces) ==
    /\ DetectorIdle
    /\ mpc' = "m_done"
    /\ m_faces' = faces
    /\ m_embs' = << >>
    /\ m_result' = recognize_faces(known_faces, faces, recognition_threshold)
    /\ m_thr' = recognition_threshold
    /\ m_galleries' = {known_faces}
    /\ UNCHANGED << known_faces, recognition_threshold, loaderVars, cameraVars, registerVars >>

\* A threshold change that empties the gallery as well.
UpdateThresholdClearing(value) ==
    /\ DetectorIdle
    /\ recognition_threshold' = (value * Scale) \div 100
    /\ known_faces' = << >>
    /\ UNCHANGED << loaderVars, matcherVars, cameraVars, registerVars >>

\* MainWindow.update_threshold(value), main_window.py lines 696-699.
UpdateThreshold(value) ==
    /\ DetectorIdle
    /\ recognition_threshold' = (value * Scale) \div 100
    /\ UNCHANGED << known_faces, loaderVars, matcherVars, cameraVars, registerVars >>

NextFaces ==
    \/ \E dir \in Dirs : LoadKnownFaces(dir)
    \/ \E store \in Stores : LoadKnownFacesFromDb(store)
    \/ \E faces \in FaceLists : RecognizeFaces(faces)
    \/ \E value \in Thresholds : UpdateThreshold(value)

\* The detector alone, the cameras at rest.
InitFaces ==
    /\ CameraManagerInit(MaxThreads, { << Rec(0, TRUE, "local", TRUE) >> })
    /\ FaceDetectorInit(Thresholds)

SpecFaces == InitFaces /\ [][NextFaces]_vars

\* ------------------------------------------ detect_faces, add_known_face
\* The images considered.
Images ==
    { Image(<< >>, "no"),
      Image(<< E_xy >>, "no"),
      Image(<< E_x, E_y >>, "no"),
      Image(<< E_x >>, "get"),
      Image(<< E_x, E_y >>, "face") }

\* detect_faces that hands on what it collected before the exception.
detect_faces_partial(image) ==
    IF image.raises = "face" THEN << Head(image.faces) >>
    ELSE IF image.raises = "get" THEN << >>
    ELSE image.faces

\* What detect_faces(image) returns, lines 151-172: one Face per face the
\* model finds, or [] when anything raised.
detect_faces(image) == IF image.raises = "no" THEN image.faces ELSE << >>

\* detect_faces(image), lines 151-172.
DetectFaces(image) ==
    /\ DetectorIdle
    /\ d_img' = image
    /\ d_ret' = detect_faces(image)
    /\ UNCHANGED << known_faces, recognition_threshold, loaderVars, matcherVars,
                    a_ret, cameraVars >>

\* The identity store as add_known_face meets it: "none" (no database
\* given), "accepts", "rejects" (database.add_known_face returns False).
Databases == {"none", "accepts", "rejects"}

\* add_known_face, lines 225-248: does the call reach line 251.  io_ok: the
\* directory and the image file can be written (otherwise an exception).
AddSucceeds(image, database, io_ok) ==
    /\ io_ok
    /\ detect_faces(image) # << >>
    /\ database # "rejects"

\* An add that puts the new identity in front.
GalleryAfterAddInFront(gallery, image, name, database, io_ok) ==
    IF AddSucceeds(image, database, io_ok)
    THEN << KnownFace(name, Head(detect_faces(image))) >> \o gallery
    ELSE gallery

\* The gallery after add_known_face (lines 251-261, or any return before).
GalleryAfterAdd(gallery, image, name, database, io_ok) ==
    IF AddSucceeds(image, database, io_ok)
    THEN Append(gallery, KnownFace(name, Head(detect_faces(image))))
    ELSE gallery

\* Entries the gallery may hold in the model.
MaxGallery == 3

\* The name given to a new identity.
NewNames == {"n"}

\* add_known_face(image, name, ..., database), lines 220-268.
AddKnownFace(image, name, database, io_ok) ==
    /\ DetectorIdle
    /\ Len(known_faces) < MaxGallery
    /\ known_faces' = GalleryAfterAdd(known_faces, image, name, database, io_ok)
    /\ a_ret' = IF AddSucceeds(image, database, io_ok) THEN "True" ELSE "False"
    /\ UNCHANGED << recognition_threshold, loaderVars, matcherVars, d_img, d_ret,
                    cameraVars >>

NextRegister ==
    \/ \E dir \in Dirs : LoadKnownFaces(dir)
    \/ \E store \in Stores : LoadKnownFacesFromDb(store)
    \/ \E image \in Images : DetectFaces(image)
    \/ \E image \in Images, name \in NewNames, database \in Databases,
          io_ok \in BOOLEAN : AddKnownFace(image, name, database, io_ok)
    \/ \E value \in Thresholds : UpdateThreshold(value)

SpecRegister == InitFaces /\ [][NextRegister]_vars

\* --------------------------------- a reload on one thread, a match on another
\* The reload, lines 124-125 (or 69-74): clear the gallery; what is to be
\* appended is known from here on.
ReloadBegin(entries) ==
    /\ lpc = "idle"
    /\ lpc' = "l_rows"
    /\ l_old' = known_faces
    /\ known_faces' = << >>
    /\ l_rows' = entries
    /\ m_galleries' = IF mpc \in {"m_embed", "m_loop"}
                      THEN m_galleries \cup {entries} ELSE m_galleries
    /\ UNCHANGED << recognition_threshold, mpc, m_faces, m_embs, m_result, m_thr,
                    cameraVars, registerVars >>

ReloadFromDbBegin(store) == ReloadBegin(EntriesFromDb(store))
ReloadFromDirBegin(dir) == ReloadBegin(EntriesFromDir(dir))

\* lines 131-141 (or 99-109): self.known_faces.append(...)
ReloadAppend ==
    /\ lpc = "l_rows"
    /\ l_rows # << >>
    /\ known_faces' = Append(known_faces, Head(l_rows))
    /\ l_rows' = Tail(l_rows)
    /\ UNCHANGED << recognition_threshold, lpc, l_old, matcherVars, cameraVars, registerVars >>

\* line 146 (or 115): the loop is over.
ReloadEnd ==
    /\ lpc = "l_rows"
    /\ l_rows = << >>
    /\ lpc' = "idle"
    /\ UNCHANGED << known_faces, recognition_threshold, l_rows, l_old,
                    matcherVars, cameraVars, registerVars >>

\* The except clause, lines 201-203, and the return.
MatchFails ==
    /\ mpc' = "m_done"
    /\ m_result' = AllUnknown(m_faces)

\* lines 176-179
MatchBegin(faces) ==
    /\ mpc \in {"idle", "m_done"}
    /\ m_faces' = faces
    /\ m_embs' = << >>
    /\ m_thr' = recognition_threshold
    /\ m_galleries' = IF lpc = "idle" THEN {known_faces}
                      ELSE {l_old, known_faces \o l_rows}
    /\ IF GalleryEmpty(known_faces)
       THEN mpc' = "m_done" /\ m_result' = AllUnknown(faces)
       ELSE mpc' = "m_embed" /\ m_result' = << >>
    /\ UNCHANGED << known_faces, recognition_threshold, loaderVars, cameraVars, registerVars >>

\* line 182
MatchEmbed ==
    /\ mpc = "m_embed"
    /\ m_embs' = Embeddings(known_faces)
    /\ IF ArrayRaises(Embeddings(known_faces))
       THEN MatchFails
       ELSE mpc' = "m_loop" /\ m_result' = m_result
    /\ UNCHANGED << known_faces, recognition_threshold, loaderVars, m_faces,
                    m_thr, m_galleries, cameraVars, registerVars >>

\* lines 184-199 for the next face, and line 205 after the last one.
MatchFace ==
    /\ mpc = "m_loop"
    /\ LET e == m_faces[Len(m_result) + 1] IN
       IF FaceRaises(m_embs, known_faces, e, recognition_threshold)
       THEN MatchFails
       ELSE /\ m_result' = Append(m_result,
                    FaceResult(m_embs, known_faces, e, recognition_threshold))
            /\ mpc' = IF Len(m_result) + 1 = Len(m_faces) THEN "m_done" ELSE "m_loop"
    /\ UNCHANGED << known_faces, recognition_threshold, loaderVars, m_faces,
                    m_embs, m_thr, m_galleries, cameraVars, registerVars >>

\* The stores and directories reloaded from, and the arguments matched,
\* while the two threads run side by side.
ConcurrentStores == { store \in Stores : store.ok /\ Len(EntriesFromDb(store)) = 2 }
ConcurrentDirs == { dir \in Dirs : dir.exists }
ConcurrentFaceLists == { faces \in FaceLists : E_zero \notin Range(faces) /\ E_none \notin Range(faces) }

NextFacesConcurrent ==
    \/ \E store \in ConcurrentStores : ReloadFromDbBegin(store)
    \/ \E dir \in ConcurrentDirs : ReloadFromDirBegin(dir)
    \/ ReloadAppend
    \/ ReloadEnd
    \/ \E faces \in ConcurrentFaceLists : MatchBegin(faces)
    \/ MatchEmbed
    \/ MatchFace

InitFacesConcurrent ==
    /\ CameraManagerInit(MaxThreads, { << Rec(0, TRUE, "local", TRUE) >> })
    /\ FaceDetectorInit({SliderMin})

SpecFacesConcurrent == InitFacesConcurrent /\ [][NextFacesConcurrent]_vars


\* ------------------------------------------------------------- properties
\* The live capture workers of camera id.
LiveWorkers(id) == { t \in ThreadIds : is_alive(t) /\ cam[t] = id }

InCleanup == spc \in {"cl_join", "cl_cap", "cl_queue", "cl_event"}
InCreate == spc \in {"st_queue", "st_event", "st_thread"}

Absent(id, caps, thrs, queues, events) ==
    /\ id \notin DOMAIN thrs
    /\ id \notin DOMAIN caps
    /\ id \notin DOMAIN queues
    /\ id \notin DOMAIN events

\* C1: when a camera is only ever started and started again (no stop_camera),
\* then whenever no call is in progress every camera has at most one live
\* capture worker.
C1_OneLiveWorker ==
    CallerIdle => \A id \in CamIds : Cardinality(LiveWorkers(id)) <= 1

\* C2: the step in which stop_camera(id) returns leaves id absent from the
\* four registries and leaves no worker of id holding an open device handle.
C2_StopDiscardsAll ==
    [][ (sop = "stop" /\ spc = "cl_event" /\ spc' = "idle") =>
            /\ Absent(sarg, capture_objects', capture_threads', frame_queues',
                      stop_events')
            /\ \A t \in ThreadIds : cam[t] = sarg => cap'[t] # "open" ]_vars

\* C3: a worker that leaves the capture loop because the failure limit was
\* reached has had max_consecutive_failures failed reads in a row since its
\* last successful read.
C3_TenFailedReads ==
    \A t \in ThreadIds :
        (pc[t] = "w_final" /\ why[t] = "read_failures")
            => failed_reads[t] = max_consecutive_failures

C5_PollReturnsFreshest ==
    \A id \in DOMAIN frame_queues :
        frame_queues[id] # << >>
            => get_frame_returns(id) = frame_queues[id][Len(frame_queues[id])]

\* C6: when a worker executes the put of lines 313-316 and the camera's
\* frame queue exists, the frame in its hand is in the queue afterwards.
C6_PublishSucceeds ==
    [][ \A t \in ThreadIds :
            (pc[t] = "w_put" /\ pc'[t] # "w_put" /\ cam[t] \in DOMAIN frame_queues)
                => frame_queues'[cam[t]] = Append(frame_queues[cam[t]], frame[t])
      ]_vars

C8_DeclinedStart ==
    [][ \A id \in DOMAIN cameras : \A r \in BOOLEAN :
            ( /\ StartCameraWith(id, r)
              /\ \/ ~cameras[id].enabled
                 \/ ~validate_camera_source(cameras[id].source, r) )
                => UNCHANGED vars ]_vars

C8_Witness ==
    /\ CallerIdle
    /\ capture_threads # << >>
    /\ \E id \in DOMAIN cameras : ~cameras[id].enabled
    /\ \E id \in DOMAIN cameras : cameras[id].enabled /\ cameras[id].source = "net"

C10_RunningIffWorkerAlive ==
    CallerIdle =>
        \A id \in DOMAIN cameras :
            get_camera_status(id).running <=> LiveWorkers(id) # {}

\* C10 (amended): get_camera_status(id) reports running exactly when a
\* thread is registered for id and that thread is alive; a registered worker
\* that has exited is reported as not running.
C10_RunningIffRegisteredAlive ==
    \A id \in DOMAIN cameras :
        get_camera_status(id).running
            <=> (id \in DOMAIN capture_threads /\ pc[capture_threads[id]] # "off")

C10_Witness ==
    \E id \in DOMAIN cameras :
        /\ id \in DOMAIN capture_threads
        /\ ~is_alive(capture_threads[id])
        /\ ~get_camera_status(id).running

\* C11 (as stated): whenever no call is in progress, get_frame(id) returns
\* no frame, and get_all_frames has no entry, for a camera that has no live
\* capture worker.
C11_NoFrameWithoutLiveWorker ==
    CallerIdle =>
        \A id \in CamIds :
            LiveWorkers(id) = {}
                => get_frame_returns(id) = 0 /\ id \notin DOMAIN get_all_frames_returns

\* C12: when a reload runs beside recognize_faces, the value a call returns
\* is the one it would compute on a complete gallery, the one before or the
\* one after a reload, that existed during the call: never on an empty,
\* partly filled or mixed one.
C12_ReloadAtomicForMatch ==
    mpc = "m_done" =>
        m_result \in { recognize_faces(gallery, m_faces, m_thr) : gallery \in m_galleries }

\* C13: a reload that fails part-way (the store cannot be read, the
\* directory is missing) leaves the gallery as it was, and a reload of a
\* batch with an entry that can be loaded never leaves a gallery that held
\* entries with none.
C13_ReloadAllOrNothing ==
    [][ /\ \A store \in Stores :
            LoadKnownFacesFromDb(store) =>
                /\ ~store.ok => known_faces' = known_faces
                /\ (known_faces # << >> /\ FromRows(store.rows) # << >>)
                        => known_faces' # << >>
        /\ \A dir \in Dirs :
            LoadKnownFaces(dir) =>
                /\ ~dir.exists => known_faces' = known_faces
                /\ (known_faces # << >> /\ FromFiles(dir.files) # << >>)
                        => known_faces' # << >>
      ]_vars

\* An embedding of the length the face model produces.
RightLength(e) == Len(e) = Len(E_x)

\* The entries of a gallery whose embedding has the right length.
WellFormed(gallery) == SelectSeq(gallery, LAMBDA kf : RightLength(kf.embedding))

\* C14: an entry with a wrong-length embedding is rejected when the gallery
\* is loaded: every embedding of the gallery has the right length, and what
\* recognize_faces returns is what the well-formed entries alone give.
C14_MalformedRejectedAtLoad ==
    /\ \A i \in 1..Len(known_faces) : RightLength(known_faces[i].embedding)
    /\ mpc = "m_done" =>
        \A gallery \in m_galleries :
            m_result = recognize_faces(WellFormed(gallery), m_faces, m_thr)

\* The cosine similarity of a gallery embedding k and a face embedding e as
\* the specification understands it: an embedding of the wrong length or of
\* norm 0 is non-matchable and scores 0.
Cosine(k, e) ==
    IF RightLength(k) /\ RightLength(e) /\ Norm(k) # 0 /\ Norm(e) # 0
    THEN (Dot(k, e) * Scale) \div (Norm(k) * Norm(e))
    ELSE 0

\* The greatest cosine similarity of e to a non-empty gallery.
BestCosine(gallery, e) ==
    CHOOSE s \in { Cosine(gallery[j].embedding, e) : j \in 1..Len(gallery) } :
        \A j \in 1..Len(gallery) : Cosine(gallery[j].embedding, e) <= s

\* C15: for each face that has an embedding, recognize_faces on a non-empty
\* gallery takes the greatest cosine similarity over the gallery; the face
\* is matched, to an identity that attains it and with that score, exactly
\* when it strictly exceeds the threshold, and is otherwise unknown with
\* that score.
C15_MaxOverThreshold ==
    mpc = "m_done" =>
        \A gallery \in m_galleries : \A i \in 1..Len(m_faces) :
            (~GalleryEmpty(gallery) /\ ~NoEmbedding(m_faces[i])) =>
                LET best == BestCosine(gallery, m_faces[i]) IN
                IF best > m_thr
                THEN /\ m_result[i].score = best
                     /\ \E j \in 1..Len(gallery) :
                            /\ gallery[j].name = m_result[i].name
                            /\ Cosine(gallery[j].embedding, m_faces[i]) = best
                ELSE m_result[i] = Unknown(best)

\* C16: recognize_faces called with an empty gallery returns one result per
\* face, each unknown with score 0, whatever the embeddings of the faces
\* (no similarity enters the result).
C16_EmptyGalleryAllUnknown ==
    (mpc = "m_done" /\ m_galleries = { << >> }) =>
        /\ Len(m_result) = Len(m_faces)
        /\ \A i \in 1..Len(m_faces) : m_result[i] = Unknown(0)

C16_Witness ==
    /\ mpc = "m_done"
    /\ m_galleries = { << >> }
    /\ m_faces = << E_zero, E_x >>
    /\ m_result = << Unknown(0), Unknown(0) >>

\* C17 (as stated): with a gallery of exactly one identity whose embedding
\* equals the embedding of a face, recognize_faces returns that identity for
\* the face, with similarity 1.0.
C17_EqualEmbeddingMatches ==
    mpc = "m_done" =>
        \A gallery \in m_galleries : \A i \in 1..Len(m_faces) :
            (Len(gallery) = 1 /\ gallery[1].embedding = m_faces[i])
                => m_result[i] = Match(gallery[1], Scale)

\* C17 (amended): the same when the embedding has a norm other than 0 and
\* the threshold is below 1.0; at threshold 1.0, which the slider allows,
\* the face is unknown with similarity 1.0.
C17_EqualEmbeddingMatchesBelowOne ==
    mpc = "m_done" =>
        \A gallery \in m_galleries : \A i \in 1..Len(m_faces) :
            (Len(gallery) = 1 /\ gallery[1].embedding = m_faces[i]
                /\ Norm(m_faces[i]) # 0)
                => m_result[i] = IF m_thr < Scale THEN Match(gallery[1], Scale)
                                 ELSE Unknown(Scale)

C17_Witness ==
    /\ mpc = "m_done"
    /\ m_galleries = { << KnownFace("a", E_xy) >> }
    /\ m_faces = << E_xy, E_x >>
    /\ m_thr = 60
    /\ m_result[1] = Match(KnownFace("a", E_xy), Scale)

\* C18: when a call returned a face unknown with a similarity at or below
\* the threshold, and the threshold is then lowered below that similarity
\* with the gallery as it was, the next call with the same faces returns
\* the face matched, with the same similarity, to an identity that attains
\* it; and a threshold change changes nothing but the threshold.
C18_LoweredThresholdMatches ==
    [][ /\ \A value \in Thresholds :
            UpdateThreshold(value) =>
                UNCHANGED << known_faces, loaderVars, matcherVars, cameraVars, registerVars >>
        /\ (mpc = "m_done" /\ m_galleries = {known_faces} /\ RecognizeFaces(m_faces)) =>
            \A i \in 1..Len(m_faces) :
                (m_result[i].name = "-" /\ m_result[i].score # NaN
                    /\ recognition_threshold < m_result[i].score)
                    => /\ m_result'[i].score = m_result[i].score
                       /\ \E j \in 1..Len(known_faces) :
                            /\ known_faces[j].name = m_result'[i].name
                            /\ Cosine(known_faces[j].embedding, m_faces[i])
                                    = m_result[i].score
      ]_vars

C18_Witness ==
    /\ mpc = "m_done"
    /\ m_galleries = {known_faces}
    /\ known_faces = << KnownFace("a", E_x), KnownFace("b", E_x) >>
    /\ m_faces = << E_xy, E_x >>
    /\ m_thr = 60
    /\ m_result[1] = Unknown(60)
    /\ recognition_threshold = SliderMin

\* The entries of a gallery whose embedding has a norm other than 0.
NonZero(gallery) == SelectSeq(gallery, LAMBDA kf : Norm(kf.embedding) # 0)

\* C19: a face whose embedding has norm 0 is returned unknown with score 0;
\* a gallery entry whose embedding has norm 0 is never the identity of a
\* result, and what recognize_faces returns is what the gallery without
\* such entries gives.
C19_ZeroNormNonMatchable ==
    mpc = "m_done" =>
        \A gallery \in m_galleries :
            /\ \A i \in 1..Len(m_faces) :
                /\ Norm(m_faces[i]) = 0 => m_result[i] = Unknown(0)
                /\ \A j \in 1..Len(gallery) :
                    Norm(gallery[j].embedding) = 0
                        => m_result[i].name # gallery[j].name
            /\ m_result = recognize_faces(NonZero(gallery), m_faces, m_thr)

\* C20: the identity recognize_faces returns for a face is the first entry
\* in gallery order among those of greatest similarity to the face, and a
\* second call with the same gallery, faces and threshold returns what the
\* first returned.
C20_FirstOfTiedWins ==
    [][ \A faces \in FaceLists :
            RecognizeFaces(faces) =>
                /\ \A i \in 1..Len(faces) :
                    m_result'[i].name # "-" =>
                        \E j \in 1..Len(known_faces) :
                            /\ known_faces[j].name = m_result'[i].name
                            /\ Cosine(known_faces[j].embedding, faces[i])
                                    = m_result'[i].score
                            /\ \A k \in 1..Len(known_faces) :
                                Cosine(known_faces[k].embedding, faces[i])
                                    <= m_result'[i].score
                            /\ \A k \in 1..(j - 1) :
                                Cosine(known_faces[k].embedding, faces[i])
                                    < m_result'[i].score
                /\ (mpc = "m_done" /\ m_galleries = {known_faces}
                        /\ m_thr = recognition_threshold /\ m_faces = faces)
                        => m_result' = m_result
      ]_vars

C20_Witness ==
    /\ mpc = "m_done"
    /\ m_galleries = { << KnownFace("a", E_x), KnownFace("b", E_x) >> }
    /\ m_faces = << E_xy, E_x >>
    /\ m_thr = SliderMin
    /\ m_result = << Match(KnownFace("a", E_x), 60), Match(KnownFace("a", E_x), Scale) >>

\* C21: add_known_face that returns True has appended exactly one identity
\* at the end of the gallery, every earlier entry in its place; one that
\* returns False (no face detected, the store rejects the record, an
\* exception) has left the gallery as it was.
C21_AddAppendsOne ==
    [][ \A image \in Images : \A name \in NewNames : \A database \in Databases :
        \A io_ok \in BOOLEAN :
            AddKnownFace(image, name, database, io_ok) =>
                /\ a_ret' = "True" =>
                    /\ Len(known_faces') = Len(known_faces) + 1
                    /\ SubSeq(known_faces', 1, Len(known_faces)) = known_faces
                    /\ known_faces'[Len(known_faces')].name = name
                /\ a_ret' = "False" => known_faces' = known_faces
                /\ a_ret' = "False" <=>
                    \/ detect_faces(image) = << >>
                    \/ database = "rejects"
                    \/ ~io_ok
      ]_vars

C21_Witness ==
    /\ a_ret = "True"
    /\ known_faces = << KnownFace("a", E_x), KnownFace("b", E_y),
                        KnownFace("n", E_xy) >>

\* C24: detect_faces called on an image on which the detection raises, in
\* the model or while a face found is processed, returns the empty list;
\* no call of detect_faces changes the gallery or the threshold.
C24_DetectFailureGivesEmpty ==
    [][ \A image \in Images :
            DetectFaces(image) =>
                /\ image.raises # "no" => d_ret' = << >>
                /\ UNCHANGED << known_faces, recognition_threshold >>
      ]_vars

C24_Witness ==
    /\ d_img = Image(<< E_x, E_y >>, "face")
    /\ d_ret = << >>
    /\ known_faces = << KnownFace("a", E_x), KnownFace("b", E_y) >>
    /\ recognition_threshold = 60

\* C22: after load_config the configured cameras are those of a well-formed
\* document, all of them, or, when the load failed (unreadable file,
\* malformed document), those configured before the call.
C22_LoadConfigAllOrNothing ==
    [][ LoadConfig =>
            \/ cameras' = cameras
            \/ \E doc \in ValidDocs : cameras' = CamerasOf(doc, Len(doc))
      ]_vars

\* C23: get_frame, get_all_frames and get_camera_status, called from a
\* second thread for a configured camera while cameras are started and
\* stopped, never end with the KeyError of a registry entry that is gone.
C23_ReadsNeverRaise ==
    (PollerIdle /\ parg \in DOMAIN cameras) => p_out # "KeyError"

\* C25: release() is never called twice on a device handle (the release of
\* the cleanup and the release of the worker's finally block never both act
\* on it), and a worker that has ended has left no handle unreleased.
C25_ReleasedExactlyOnce ==
    \A t \in ThreadIds :
        /\ cap[t] # "released_twice"
        /\ ~is_alive(t) => cap[t] \in {"none", "released"}

\* C26: in every state another thread can observe, even one that takes
\* thread_lock to look, a camera has a frame queue exactly when a worker is
\* registered for it.
C26_QueueIffRegistered ==
    thread_lock = "free" =>
        \A id \in CamIds :
            id \in DOMAIN frame_queues <=> id \in DOMAIN capture_threads

\* C27: thread_lock is not held across the join of a stop: while the cleanup
\* waits for a worker that is still alive, the lock is free for the worker's
\* own registry update and for the other operations.
C27_LockFreeDuringJoin ==
    ( /\ spc = "cl_join"
      /\ sarg \in DOMAIN capture_threads
      /\ is_alive(capture_threads[sarg]) ) => thread_lock = "free"

\* C28: every insertion into or deletion from capture_threads, frame_queues,
\* stop_events and capture_objects is made by a thread that holds
\* thread_lock: the caller inside the cleanup's with block, or a step that is
\* a whole with block itself (lines 206-207, lines 247-248) and so starts
\* from a free lock.
C28_MutationsUnderLock ==
    [][ /\ capture_threads' # capture_threads =>
            \/ thread_lock = "caller"
            \/ thread_lock = "free" /\ spc = "st_thread"
        /\ capture_objects' # capture_objects =>
            \/ thread_lock = "caller"
            \/ /\ thread_lock = "free"
               /\ \E t \in ThreadIds : pc[t] = "w_store" /\ pc'[t] # "w_store"
        /\ DOMAIN frame_queues' # DOMAIN frame_queues => thread_lock = "caller"
        /\ DOMAIN stop_events' # DOMAIN stop_events => thread_lock = "caller"
      ]_vars

\* C29: the supervisor does not act on a device handle (isOpened, release)
\* while the worker that opened it is alive.
C29_HandleOnlyByWorker ==
    [][ (CleanupCapture /\ sarg \in DOMAIN capture_objects) =>
            ~is_alive(capture_objects[sarg]) ]_vars

\* The stop signal of the camera of worker t is raised, as the worker reads
\* it at lines 239 and 278.
StopRaised(t) ==
    /\ is_alive(t)
    /\ cam[t] \in DOMAIN stop_events
    /\ stop_events[cam[t]]

\* C30: once the stop signal of its camera is raised, a worker whose device
\* calls return leaves the loop, releases the device and ends.
C30_StopLeadsToExit ==
    \A t \in ThreadIds : StopRaised(t) ~> ~is_alive(t)

\* The positions of a worker inside the capture loop (lines 278-326).
InLoop(t) == pc[t] \in {"w_loop", "w_read", "w_pub", "w_full", "w_evict", "w_put"}

\* The worker has not opened its device: it holds no handle, or one that
\* isOpened() denied.
NeverOpened(t) == cap[t] \in {"none", "failed"}

\* C31: a worker makes at most max_retries attempts to open its device; when
\* the last of them has failed it goes to its end without entering the
\* capture loop; a worker that has not opened its device is not in the loop
\* and holds no frame to publish.
C31_ThreeOpenAttempts ==
    \A t \in ThreadIds :
        /\ retry_count[t] <= max_retries
        /\ pc[t] = "w_open" => retry_count[t] < max_retries
        /\ retry_count[t] = max_retries => pc[t] = "w_final" /\ why[t] = "open_failed"
        /\ NeverOpened(t) => ~InLoop(t) /\ pc[t] # "w_store" /\ frame[t] = 0

C31_Witness ==
    \E t \in ThreadIds :
        /\ pc[t] = "w_final" /\ why[t] = "open_failed"
        /\ retry_count[t] = max_retries
        /\ cap[t] = "failed"
        /\ cam[t] \in DOMAIN frame_queues /\ frame_queues[cam[t]] = << >>

\* C32: the frames of a camera's queue, which successive get_frame calls
\* hand out from the head (get_nowait), stand in capture order: no frame
\* is queued behind a frame captured after it.
C32_FramesInCaptureOrder ==
    \A id \in DOMAIN frame_queues :
        \A i, j \in 1..Len(frame_queues[id]) :
            i < j => frame_queues[id][i] < frame_queues[id][j]

\* A live worker that is not the thread registered for its camera: its stop
\* timed out and the cleanup dropped it from capture_threads (lines 48-54).
Leftover(t) ==
    /\ is_alive(t)
    /\ ~(cam[t] \in DOMAIN capture_threads /\ capture_threads[cam[t]] = t)

\* C33: outside a cleanup, when every queue and stop event in the
\* registries belongs to the latest start of its camera, a left-over worker
\* puts no frame into a queue and does not pass the loop condition of
\* line 278 on an unset stop event.
C33_OwnSignalAndBuffer ==
    [][ \A t \in ThreadIds :
            (Leftover(t) /\ ~InCleanup) =>
                /\ ~( /\ pc[t] = "w_put" /\ pc'[t] = "w_loop"
                      /\ cam[t] \in DOMAIN frame_queues )
                /\ ~( pc[t] = "w_loop" /\ pc'[t] = "w_read" )
      ]_vars

\* C34: between the return of stop_camera(id) and the next start_camera(id),
\* that is whenever no call is in progress and no thread is registered for
\* id, id is in none of the four registries.
C34_StoppedStaysAbsent ==
    CallerIdle =>
        \A id \in CamIds :
            id \notin DOMAIN capture_threads =>
                Absent(id, capture_threads, capture_objects, frame_queues,
                       stop_events)

\* C35: the cleanup is never in its join on a worker that waits, at line
\* 247, for the thread_lock the cleanup holds.
C35_NoJoinOnLockWaiter ==
    ~( /\ spc = "cl_join"
       /\ thread_lock = "caller"
       /\ sarg \in DOMAIN capture_threads
       /\ pc[capture_threads[sarg]] = "w_store" )

\* An iteration of worker t gets past the rotation of lines 296-302 without
\* an exception.
RotatePasses(t) ==
    /\ pc[t] = "w_pub"
    /\ pc'[t] # "w_pub"
    /\ consecutive_failures'[t] = consecutive_failures[t]

\* C36: a worker whose every iteration fails, from some point on, does not
\* stay in the capture loop for ever: the failures add up to
\* max_consecutive_failures and the loop ends.
C36_FailingWorkerLeavesLoop ==
    \A t \in ThreadIds :
        <>[][~RotatePasses(t)]_vars => []<>(~InLoop(t))

\* The call of recognize_faces on gallery g met an exception (lines 181-203).
RecognizeRaises(g, faces, threshold) ==
    /\ ~GalleryEmpty(g)
    /\ \/ ArrayRaises(Embeddings(g))
       \/ \E i \in 1..Len(faces) :
            FaceRaises(Embeddings(g), g, faces[i], threshold)

C38_StopAllEmptiesRegistries ==
    [][ (sop = "stop_all" /\ spc = "sa_next" /\ spc' = "idle") =>
            /\ DOMAIN capture_threads' = {}
            /\ DOMAIN capture_objects' = {}
            /\ DOMAIN frame_queues' = {}
            /\ DOMAIN stop_events' = {} ]_vars

\* The worker is in the device-open retry phase (lines 238-259).
InOpenPhase(t) == pc[t] \in {"w_retry", "w_open", "w_store"}

\* C39: a worker whose stop signal was raised while it was opening its
\* device (it is still in the open phase and the cleanup has already dropped
\* it from capture_threads) begins no further open attempt and does not go
\* on to read a frame.
C39_StopDuringOpen ==
    [][ \A t \in ThreadIds :
            (Leftover(t) /\ InOpenPhase(t)) =>
                /\ ~( /\ pc'[t] = "w_open"
                      /\ pc[t] = "w_retry" \/ retry_count'[t] > retry_count[t] )
                /\ pc'[t] # "w_read"
      ]_vars

====
